---- MODULE Spec2Model ----
(***************************************************************************)
(* Model of the round lifecycle and of the end-of-round resolution of the  *)
(* classical-concepts-2 trainer (internal/game/game.go, the revision with  *)
(* objectives and resolution).                                             *)
(*                                                                         *)
(* Time: timeLeft is kept in milliseconds (the code keeps float32 seconds  *)
(* and subtracts elapsedMillis/1000); a tick's measured wall-clock time is *)
(* an input in microseconds, truncated to whole milliseconds as            *)
(* time.Duration.Milliseconds does.                                        *)
(* sinceReset is the wall-clock time, in microseconds, that has passed      *)
(* since Reset recorded lastUpdateTime; it stops counting at MAX_TIME       *)
(* seconds.                                                                *)
(* Tile pixel positions are a pure function of (row, column) fixed by      *)
(* Reset, so they are operators, not variables.  The rotation field and    *)
(* the button colour only feed the renderer and are left out.              *)
(***************************************************************************)
EXTENDS Integers, Sequences, FiniteSets, TLC

\* ---------------------------------------------------------------- constants
NUM_ROWS == 5
NUM_COLS == 7
TITLE_RADIUS == 60
MAX_TIME == 15
WIDTH == 1920
HEIGHT == 1080
BUTTON_WIDTH == 300
BUTTON_HEIGHT == 100
MillisPerSecond == 1000
MicrosPerMilli == 1000
TicksPerSecond == 60

EmptyTile == 0
AlphaTile == 1
BetaTile == 2
CenterTile == 3
MouseOverTile == 4
PlayerTile == 5
InvalidTile == -1

StandByState == 0
PlayingState == 1
EndState == 2

\* ------------------------------------------------------------------- bounds
\* a tick measures k * TickQuantum microseconds, k in 0..MaxTickQuanta
TickQuantum == 7500000
MaxTickQuanta == 2
\* the cursor visits the first MaxPointerCells cells of PointerCellSeq
MaxPointerCells == 5
\* boards of the engine specification: the reset layout with at most
\* MaxEdits cells of the symbol lattice overwritten
MaxEdits == 2

Rows == 0..(NUM_ROWS - 1)
Cols == 0..(NUM_COLS - 1)

VARIABLES board, state, timeLeft, symbolObjective, columnObjective,
          centerSymbolPosition, objectiveSymbolPosition, win, sinceReset

vars == <<board, state, timeLeft, symbolObjective, columnObjective,
          centerSymbolPosition, objectiveSymbolPosition, win, sinceReset>>

BoardPosition(r, c) == [row |-> r, column |-> c]

IsSymbol(s) == s = AlphaTile \/ s = BetaTile \/ s = CenterTile

\* ------------------------------------------------------------ tile geometry
TileX(c) == TITLE_RADIUS * 3 + c * (TITLE_RADIUS * 3)
TileY(r) == TITLE_RADIUS * 3 + r * ((TITLE_RADIUS * 5) \div 2)

buttonX == WIDTH - ((BUTTON_WIDTH * 3) \div 2)
buttonY == (HEIGHT \div 2) - (BUTTON_HEIGHT \div 2)

ShapeHit(shapeX, shapeY, pointX, pointY) ==
    LET adjustRadius == (TITLE_RADIUS * 5) \div 4
    IN  /\ pointX > shapeX - adjustRadius
        /\ pointX < shapeX + adjustRadius
        /\ pointY > shapeY - adjustRadius
        /\ pointY < shapeY + adjustRadius

ButtonHit(x, y) ==
    /\ x > buttonX
    /\ x < buttonX + BUTTON_WIDTH
    /\ y > buttonY
    /\ y < buttonY + BUTTON_HEIGHT

\* ------------------------------------------------------------ board helpers
RemoveTileWithState(b, s) ==
    [r \in Rows |-> [c \in Cols |->
        IF b[r][c] = s THEN EmptyTile ELSE b[r][c]]]

\* variant: setting Hover or PlayerChoice clears the holders of both
SetTileClearsBoth(b, c, r, s) ==
    LET b1 == IF s = PlayerTile \/ s = MouseOverTile
              THEN RemoveTileWithState(
                       RemoveTileWithState(b, PlayerTile), MouseOverTile)
              ELSE b
    IN  [b1 EXCEPT ![r][c] = s]

\* variant: SetTile that does not clear the previous holder of the state
SetTileKeepOthers(b, c, r, s) == [b EXCEPT ![r][c] = s]

SetTile(b, c, r, s) ==
    LET b1 == IF s = PlayerTile \/ s = MouseOverTile
              THEN RemoveTileWithState(b, s)
              ELSE b
    IN  [b1 EXCEPT ![r][c] = s]

StandbyBoard == [r \in Rows |-> [c \in Cols |-> InvalidTile]]

\* variant: one gap cell is not marked
InvalidCellsFive == {<<1, 1>>, <<3, 1>>, <<1, 3>>, <<3, 3>>, <<1, 5>>}

InvalidCells == {<<1, 1>>, <<3, 1>>, <<1, 3>>, <<3, 3>>, <<1, 5>>, <<3, 5>>}

ResetBoard ==
    LET b0  == [r \in Rows |-> [c \in Cols |->
                   IF <<r, c>> \in InvalidCells THEN InvalidTile ELSE EmptyTile]]
        b1  == SetTile(b0, 0, 0, BetaTile)
        b2  == SetTile(b1, 0, 2, CenterTile)
        b3  == SetTile(b2, 0, 4, AlphaTile)
        b4  == SetTile(b3, 2, 0, CenterTile)
        b5  == SetTile(b4, 2, 2, AlphaTile)
        b6  == SetTile(b5, 2, 4, BetaTile)
        b7  == SetTile(b6, 4, 0, BetaTile)
        b8  == SetTile(b7, 4, 2, BetaTile)
        b9  == SetTile(b8, 4, 4, CenterTile)
        b10 == SetTile(b9, 6, 0, AlphaTile)
        b11 == SetTile(b10, 6, 2, CenterTile)
    IN  SetTile(b11, 6, 4, AlphaTile)

\* --------------------------------------------------------- pointer on board
\* variant: symbol and PlayerChoice tiles are hit as well
HitTilesAnyPlayable(b, cx, cy) ==
    {p \in Rows \X Cols :
        /\ b[p[1]][p[2]] # InvalidTile
        /\ ShapeHit(TileX(p[2]), TileY(p[1]), cx, cy)}

\* the first Empty or MouseOver tile, in row-major order, that the cursor hits
HitTiles(b, cx, cy) ==
    {p \in Rows \X Cols :
        /\ b[p[1]][p[2]] = EmptyTile \/ b[p[1]][p[2]] = MouseOverTile
        /\ ShapeHit(TileX(p[2]), TileY(p[1]), cx, cy)}

FirstRowMajor(S) ==
    CHOOSE p \in S : \A q \in S :
        p[1] < q[1] \/ (p[1] = q[1] /\ p[2] <= q[2])

HandleMouseInBoard(b, cx, cy, pressed) ==
    LET hits == HitTiles(b, cx, cy)
    IN  IF hits = {}
        THEN b
        ELSE LET p == FirstRowMajor(hits)
             IN  IF pressed
                 THEN SetTile(b, p[2], p[1], PlayerTile)
                 ELSE SetTile(b, p[2], p[1], MouseOverTile)

\* ------------------------------------------------------- resolution engine
\* variant: the rows are flipped but the columns are not
ReflectedStatesRowsOnly(b) ==
    [r \in Rows |-> [c \in Cols |->
        LET src == b[NUM_ROWS - 1 - r][c]
        IN  IF IsSymbol(src) THEN src ELSE EmptyTile]]

\* the local array "states": every symbol written at its flipped coordinates
ReflectedStates(b) ==
    [r \in Rows |-> [c \in Cols |->
        LET src == b[NUM_ROWS - 1 - r][NUM_COLS - 1 - c]
        IN  IF IsSymbol(src) THEN src ELSE EmptyTile]]

\* variant: every playable cell takes the value of "states"
CommitStatesEveryCell(b, states) ==
    [r \in Rows |-> [c \in Cols |->
        IF b[r][c] # InvalidTile THEN states[r][c] ELSE b[r][c]]]

\* the second loop: symbols of "states" are copied back onto the board
CommitStates(b, states) ==
    [r \in Rows |-> [c \in Cols |->
        IF IsSymbol(states[r][c]) THEN states[r][c] ELSE b[r][c]]]

TransformBoard(b) == CommitStates(b, ReflectedStates(b))

\* variant: the objective column is not searched for its Center
CenterRowNoSearch(b, objectiveColumn) == 0

\* first row of the objective column that holds a Center, 0 when none does
CenterRow(b, objectiveColumn) ==
    LET hits == {r \in Rows : b[r][objectiveColumn] = CenterTile}
    IN  IF hits = {} THEN 0
        ELSE CHOOSE r \in hits : \A q \in hits : r <= q

\* variant: the "up" guard lets the probe leave the grid from row 1
ProbeTargetsLooseGuard(row, column) ==
    (IF row > 0 THEN <<BoardPosition(row - 2, column)>> ELSE <<>>)
    \o (IF row < NUM_ROWS - 2
        THEN <<BoardPosition(row + 2, column)>> ELSE <<>>)
    \o (IF column > 1 THEN <<BoardPosition(row, column - 2)>> ELSE <<>>)
    \o (IF column < NUM_COLS - 2
        THEN <<BoardPosition(row, column + 2)>> ELSE <<>>)

\* the cells TilesAroundATileWithAnState indexes from (row, column), in the
\* order up, down, left, right: each passed its guard
ProbeTargets(row, column) ==
    (IF row > 1 THEN <<BoardPosition(row - 2, column)>> ELSE <<>>)
    \o (IF row < NUM_ROWS - 2
        THEN <<BoardPosition(row + 2, column)>> ELSE <<>>)
    \o (IF column > 1 THEN <<BoardPosition(row, column - 2)>> ELSE <<>>)
    \o (IF column < NUM_COLS - 2
        THEN <<BoardPosition(row, column + 2)>> ELSE <<>>)

TilesAroundATileWithAnState(b, row, column, s) ==
    LET Holds(t) == b[t.row][t.column] = s
    IN  SelectSeq(ProbeTargets(row, column), Holds)

NotFound == [found |-> FALSE, position |-> BoardPosition(0, 0)]

\* variant: a candidate qualifies with one or more Center neighbours
RECURSIVE FirstWithOneCenterAtLeastOne(_, _, _)
FirstWithOneCenterAtLeastOne(b, posible, i) ==
    IF i > Len(posible)
    THEN NotFound
    ELSE IF Len(TilesAroundATileWithAnState(b, posible[i].row,
                    posible[i].column, CenterTile)) >= 1
         THEN [found |-> TRUE, position |-> posible[i]]
         ELSE FirstWithOneCenterAtLeastOne(b, posible, i + 1)

\* the range loop over "posible" with its break
RECURSIVE FirstWithOneCenter(_, _, _)
FirstWithOneCenter(b, posible, i) ==
    IF i > Len(posible)
    THEN NotFound
    ELSE IF Len(TilesAroundATileWithAnState(b, posible[i].row,
                    posible[i].column, CenterTile)) = 1
         THEN [found |-> TRUE, position |-> posible[i]]
         ELSE FirstWithOneCenter(b, posible, i + 1)

\* variant: several candidates are never told apart
ResolveObjectiveNoFilter(b, objectiveRow, objectiveColumn, symbol) ==
    LET posible == TilesAroundATileWithAnState(b, objectiveRow,
                                               objectiveColumn, symbol)
    IN  IF Len(posible) = 1
        THEN [found |-> TRUE, position |-> posible[1]]
        ELSE NotFound

\* variant: a single candidate goes through the neighbour filter too
ResolveObjectiveAlwaysFilter(b, objectiveRow, objectiveColumn, symbol) ==
    FirstWithOneCenter(
        b,
        TilesAroundATileWithAnState(b, objectiveRow, objectiveColumn, symbol),
        1)

\* found / objectivePosition of End
ResolveObjective(b, objectiveRow, objectiveColumn, symbol) ==
    LET posible == TilesAroundATileWithAnState(b, objectiveRow,
                                               objectiveColumn, symbol)
        possibles == Len(posible)
    IN  IF possibles > 0
        THEN IF possibles = 1
             THEN [found |-> TRUE, position |-> posible[1]]
             ELSE FirstWithOneCenter(b, posible, 1)
        ELSE NotFound

FindPlayerPosition(b) ==
    LET cells == {p \in Rows \X Cols : b[p[1]][p[2]] = PlayerTile}
    IN  IF cells = {}
        THEN NotFound
        ELSE LET p == FirstRowMajor(cells)
             IN  [found |-> TRUE, position |-> BoardPosition(p[1], p[2])]

\* variant: the vertical case with the objective below the center forgets
\* the bound at the center
PlayerBetweenOpenEnded(objectivePosition, center, playerPosition) ==
    IF objectivePosition.row = center.row /\ center.row = playerPosition.row
    THEN IF objectivePosition.column < center.column
         THEN /\ playerPosition.column > objectivePosition.column
              /\ playerPosition.column < center.column
         ELSE /\ playerPosition.column < objectivePosition.column
              /\ playerPosition.column > center.column
    ELSE IF /\ objectivePosition.column = center.column
            /\ center.column = playerPosition.column
         THEN IF /\ objectivePosition.row < center.row
                 /\ center.row < playerPosition.row
              THEN /\ playerPosition.row > objectivePosition.row
                   /\ playerPosition.row < center.row
              ELSE playerPosition.row < objectivePosition.row
         ELSE FALSE

\* the nested ifs of End that decide whether the player is between the
\* center and the objective
PlayerBetween(objectivePosition, center, playerPosition) ==
    IF objectivePosition.row = center.row /\ center.row = playerPosition.row
    THEN IF objectivePosition.column < center.column
         THEN /\ playerPosition.column > objectivePosition.column
              /\ playerPosition.column < center.column
         ELSE /\ playerPosition.column < objectivePosition.column
              /\ playerPosition.column > center.column
    ELSE IF /\ objectivePosition.column = center.column
            /\ center.column = playerPosition.column
         THEN IF /\ objectivePosition.row < center.row
                 /\ center.row < playerPosition.row
              THEN /\ playerPosition.row > objectivePosition.row
                   /\ playerPosition.row < center.row
              ELSE /\ playerPosition.row < objectivePosition.row
                   /\ playerPosition.row > center.row
         ELSE FALSE

\* End as a function of the fields it reads; yields the fields it writes
End(b, symbol, columnGroup, oldCenter, oldObjective, oldWin) ==
    LET b1 == RemoveTileWithState(b, MouseOverTile)
        b2 == TransformBoard(b1)
        objectiveColumn == columnGroup * 2
        objectiveRow == CenterRow(b2, objectiveColumn)
        res == ResolveObjective(b2, objectiveRow, objectiveColumn, symbol)
        center == BoardPosition(objectiveRow, objectiveColumn)
        player == FindPlayerPosition(b2)
        won == /\ res.found
               /\ player.found
               /\ PlayerBetween(res.position, center, player.position)
    IN  [board |-> b2,
         found |-> res.found,
         center |-> center,
         objectivePosition |-> res.position,
         centerSymbolPosition |-> IF res.found THEN center ELSE oldCenter,
         objectiveSymbolPosition |->
             IF won THEN player.position
             ELSE IF res.found THEN res.position ELSE oldObjective,
         win |-> (oldWin \/ won)]

\* ------------------------------------------------------------------ inputs
\* wall-clock time measured by one tick, in microseconds
Durations == {k * TickQuantum : k \in 0..MaxTickQuanta}

\* cells the cursor may be over, as <<row, column>>: cells midway between a
\* resolved center and objective, cells in line with them but outside the
\* segment, a symbol cell and a gap cell
PointerCellSeq ==
    <<  <<3, 0>>, <<1, 0>>, <<3, 4>>, <<2, 1>>, <<0, 0>>, <<1, 1>>,
        <<2, 3>>, <<1, 6>>, <<0, 1>>, <<0, 3>>, <<4, 3>>, <<3, 6>>  >>

PointerCells ==
    {PointerCellSeq[i] : i \in 1..(IF MaxPointerCells < Len(PointerCellSeq)
                                   THEN MaxPointerCells
                                   ELSE Len(PointerCellSeq))}

\* cursor snapshots in pixels: the centre of a pointer cell, the middle of
\* the start button, or a point on neither
CursorPositions ==
    {<<TileX(p[2]), TileY(p[1])>> : p \in PointerCells}
    \cup {<<buttonX + BUTTON_WIDTH \div 2, buttonY + BUTTON_HEIGHT \div 2>>,
          <<0, 0>>}

\* ----------------------------------------------------------------- actions
Init ==
    /\ board = StandbyBoard
    /\ state = StandByState
    /\ timeLeft = 0
    /\ symbolObjective = EmptyTile
    /\ columnObjective = 0
    /\ centerSymbolPosition = BoardPosition(0, 0)
    /\ objectiveSymbolPosition = BoardPosition(0, 0)
    /\ win = FALSE
    /\ sinceReset = 0

\* variant: the outcome of the previous round is not cleared
ResetKeepsWin ==
    \E symbol \in {AlphaTile, BetaTile}, columnGroup \in 0..3 :
        /\ board' = ResetBoard
        /\ state' = PlayingState
        /\ timeLeft' = MAX_TIME * MillisPerSecond
        /\ symbolObjective' = symbol
        /\ columnObjective' = columnGroup
        /\ sinceReset' = 0
        /\ UNCHANGED <<centerSymbolPosition, objectiveSymbolPosition, win>>

Reset ==
    \E symbol \in {AlphaTile, BetaTile}, columnGroup \in 0..3 :
        /\ board' = ResetBoard
        /\ state' = PlayingState
        /\ timeLeft' = MAX_TIME * MillisPerSecond
        /\ symbolObjective' = symbol
        /\ columnObjective' = columnGroup
        /\ win' = FALSE
        /\ sinceReset' = 0
        /\ UNCHANGED <<centerSymbolPosition, objectiveSymbolPosition>>

UpdateButtons(cx, cy, pressed) ==
    IF ButtonHit(cx, cy) /\ pressed
    THEN Reset
    ELSE UNCHANGED vars

\* the wall clock moves on by the time a tick measures
Elapse(since, elapsedTime) ==
    IF since + elapsedTime < MAX_TIME * MillisPerSecond * MicrosPerMilli
    THEN since + elapsedTime
    ELSE MAX_TIME * MillisPerSecond * MicrosPerMilli

\* variant: End is called on every tick, not only when the countdown is out
UpdatePlayingEndsEveryTick(elapsedTime, cx, cy, pressed) ==
    LET elapsedMillis == elapsedTime \div MicrosPerMilli
        left == timeLeft - elapsedMillis
        e == End(board, symbolObjective, columnObjective,
                 centerSymbolPosition, objectiveSymbolPosition, win)
    IN  /\ sinceReset' = Elapse(sinceReset, elapsedTime)
        /\ timeLeft' = IF left <= 0 THEN 0 ELSE left
        /\ state' = EndState
        /\ board' = HandleMouseInBoard(e.board, cx, cy, pressed)
        /\ centerSymbolPosition' = e.centerSymbolPosition
        /\ objectiveSymbolPosition' = e.objectiveSymbolPosition
        /\ win' = e.win
        /\ UNCHANGED <<symbolObjective, columnObjective>>

\* variant: the countdown is not clamped when it runs out
UpdatePlayingNoClamp(elapsedTime, cx, cy, pressed) ==
    LET elapsedMillis == elapsedTime \div MicrosPerMilli
        left == timeLeft - elapsedMillis
        e == End(board, symbolObjective, columnObjective,
                 centerSymbolPosition, objectiveSymbolPosition, win)
    IN  /\ sinceReset' = Elapse(sinceReset, elapsedTime)
        /\ IF left <= 0
           THEN /\ timeLeft' = left
                /\ state' = EndState
                /\ board' = HandleMouseInBoard(e.board, cx, cy, pressed)
                /\ centerSymbolPosition' = e.centerSymbolPosition
                /\ objectiveSymbolPosition' = e.objectiveSymbolPosition
                /\ win' = e.win
                /\ UNCHANGED <<symbolObjective, columnObjective>>
           ELSE /\ timeLeft' = left
                /\ board' = HandleMouseInBoard(board, cx, cy, pressed)
                /\ UNCHANGED <<state, symbolObjective, columnObjective,
                               centerSymbolPosition, objectiveSymbolPosition,
                               win>>

\* variant: the countdown stops at zero but the round is never resolved
UpdatePlayingNeverEnds(elapsedTime, cx, cy, pressed) ==
    LET elapsedMillis == elapsedTime \div MicrosPerMilli
        left == timeLeft - elapsedMillis
    IN  /\ sinceReset' = Elapse(sinceReset, elapsedTime)
        /\ timeLeft' = (IF left <= 0 THEN 0 ELSE left)
        /\ board' = HandleMouseInBoard(board, cx, cy, pressed)
        /\ UNCHANGED <<state, symbolObjective, columnObjective,
                       centerSymbolPosition, objectiveSymbolPosition, win>>

\* UpdateTimeBar, then (UpdateBoard, which only animates, then)
\* HandleMouseInBoard, all in the same tick
UpdatePlaying(elapsedTime, cx, cy, pressed) ==
    LET elapsedMillis == elapsedTime \div MicrosPerMilli
        left == timeLeft - elapsedMillis
        e == End(board, symbolObjective, columnObjective,
                 centerSymbolPosition, objectiveSymbolPosition, win)
    IN  /\ sinceReset' = Elapse(sinceReset, elapsedTime)
        /\ IF left <= 0
           THEN /\ timeLeft' = 0
                /\ state' = EndState
                /\ board' = HandleMouseInBoard(e.board, cx, cy, pressed)
                /\ centerSymbolPosition' = e.centerSymbolPosition
                /\ objectiveSymbolPosition' = e.objectiveSymbolPosition
                /\ win' = e.win
                /\ UNCHANGED <<symbolObjective, columnObjective>>
           ELSE /\ timeLeft' = left
                /\ board' = HandleMouseInBoard(board, cx, cy, pressed)
                /\ UNCHANGED <<state, symbolObjective, columnObjective,
                               centerSymbolPosition, objectiveSymbolPosition,
                               win>>

StandByTick ==
    /\ state = StandByState
    /\ \E cur \in CursorPositions, pressed \in BOOLEAN :
           UpdateButtons(cur[1], cur[2], pressed)

PlayingTick ==
    /\ state = PlayingState
    /\ \E elapsedTime \in Durations, cur \in CursorPositions,
          pressed \in BOOLEAN :
           UpdatePlaying(elapsedTime, cur[1], cur[2], pressed)

EndTick ==
    /\ state = EndState
    /\ \E cur \in CursorPositions, pressed \in BOOLEAN :
           UpdateButtons(cur[1], cur[2], pressed)

\* one call of Update
Next == StandByTick \/ PlayingTick \/ EndTick

Spec == Init /\ [][Next]_vars

\* ------------------------------------------------- engine on varied boards
\* The resolution engine applied to boards other than the reset layout: the
\* countdown of a round expires on the reset layout with up to MaxEdits cells
\* of the symbol lattice (even rows, even columns) overwritten.
LatticeCells == {p \in Rows \X Cols : p[1] % 2 = 0 /\ p[2] % 2 = 0}

EditSets == {S \in SUBSET LatticeCells : Cardinality(S) <= MaxEdits}

Edits == UNION {[S -> {EmptyTile, AlphaTile, BetaTile, CenterTile}] :
                S \in EditSets}

EditedBoard(f) ==
    [r \in Rows |-> [c \in Cols |->
        IF <<r, c>> \in DOMAIN f THEN f[<<r, c>>] ELSE ResetBoard[r][c]]]

EngineBoards == {EditedBoard(f) : f \in Edits}

\* the marker positions a round starts with: the zero values of a new game,
\* or those of an earlier round, which Reset leaves in place
PriorMarkers ==
    {<<BoardPosition(0, 0), BoardPosition(0, 0)>>,
     <<BoardPosition(2, 0), BoardPosition(4, 0)>>}

InitEngine ==
    /\ board \in EngineBoards
    /\ state = PlayingState
    /\ timeLeft = MAX_TIME * MillisPerSecond
    /\ symbolObjective \in {AlphaTile, BetaTile}
    /\ columnObjective \in 0..3
    /\ \E m \in PriorMarkers :
           /\ centerSymbolPosition = m[1]
           /\ objectiveSymbolPosition = m[2]
    /\ win = FALSE
    /\ sinceReset = 0

\* the tick that measures the whole countdown, cursor off the board
ExpiryTick ==
    /\ state = PlayingState
    /\ UpdatePlaying(MAX_TIME * MillisPerSecond * MicrosPerMilli, 0, 0, FALSE)

NextEngine == ExpiryTick

SpecEngine == InitEngine /\ [][NextEngine]_vars

\* ------------------------------------------------------- steady frame rate
\* One round driven at the tick rate the game asks for (SetTPS): every tick
\* measures one frame interval, the cursor stays off the board.
FrameMicros == (MillisPerSecond * MicrosPerMilli) \div TicksPerSecond

StartTick ==
    /\ state = StandByState
    /\ UpdateButtons(buttonX + BUTTON_WIDTH \div 2,
                     buttonY + BUTTON_HEIGHT \div 2, TRUE)

FrameTick ==
    /\ state = PlayingState
    /\ UpdatePlaying(FrameMicros, 0, 0, FALSE)

NextClock == StartTick \/ FrameTick

SpecClock == Init /\ [][NextClock]_vars

\* -------------------------------------------- rounds ticked to their end
\* a round ticked with the shortest ticks that still measure a millisecond,
\* the pointer away from the board; Update is called on every tick of the
\* game loop, so a tick that can be taken is taken
ShortTickMicros == 1000

ShortTick ==
    /\ state = PlayingState
    /\ UpdatePlaying(ShortTickMicros, 0, 0, FALSE)

NextLive == StartTick \/ ShortTick

SpecLive == Init /\ [][NextLive]_vars /\ WF_vars(ShortTick)

\* ================================================================== claims
At(b, pos) == b[pos.row][pos.column]

InGrid(r, c) == r \in Rows /\ c \in Cols

Lesser(a, b) == IF a < b THEN a ELSE b
Greater(a, b) == IF a < b THEN b ELSE a

\* p lies strictly between a and b on a row or a column the three share
StrictlyBetween(p, a, b) ==
    \/ /\ p.row = a.row /\ a.row = b.row
       /\ Lesser(a.column, b.column) < p.column
       /\ p.column < Greater(a.column, b.column)
    \/ /\ p.column = a.column /\ a.column = b.column
       /\ Lesser(a.row, b.row) < p.row
       /\ p.row < Greater(a.row, b.row)

PositionsWith(b, s) ==
    {pos \in [row : Rows, column : Cols] : At(b, pos) = s}

\* the symbols of a board, every other cell blank
SymbolLayout(b) ==
    [r \in Rows |-> [c \in Cols |->
        IF b[r][c] \in {AlphaTile, BetaTile, CenterTile}
        THEN b[r][c] ELSE EmptyTile]]

\* a layout turned by 180 degrees about the middle of the grid
Rotated(layout) ==
    [r \in Rows |-> [c \in Cols |-> layout[4 - r][6 - c]]]

\* the countdown expires in this step
Expires == state = PlayingState /\ state' = EndState

\* what End computes from the fields as they stand
Resolution ==
    End(board, symbolObjective, columnObjective,
        centerSymbolPosition, objectiveSymbolPosition, win)

\* the two-step probe offsets in the order up, down, left, right
ProbeOffsets == << <<-2, 0>>, <<2, 0>>, <<0, -2>>, <<0, 2>> >>

Probe(pos, i) ==
    BoardPosition(pos.row + ProbeOffsets[i][1], pos.column + ProbeOffsets[i][2])

\* the probes from pos, by index, that stay in the grid and find state s
ProbeHits(b, pos, s) ==
    {i \in 1..4 : /\ InGrid(Probe(pos, i).row, Probe(pos, i).column)
                  /\ At(b, Probe(pos, i)) = s}

\* the center anchor of step 2 on a transformed board
Anchor(b, columnGroup) ==
    LET col == 2 * columnGroup
        rs == {r \in Rows : b[r][col] = CenterTile}
    IN  BoardPosition(IF rs = {} THEN 0
                      ELSE CHOOSE r \in rs : \A q \in rs : r <= q, col)

Candidates(b) == ProbeHits(b, Anchor(b, columnObjective), symbolObjective)

CenterCount(b, pos) == Cardinality(ProbeHits(b, pos, CenterTile))

Qualifying(b) ==
    {i \in Candidates(b) :
        CenterCount(b, Probe(Anchor(b, columnObjective), i)) = 1}

Least(S) == CHOOSE i \in S : \A j \in S : i <= j

\* C1: at countdown expiry, a PlayerChoice cell strictly between the resolved
\* center and the resolved objective, on a row or a column the three share,
\* makes the round resolve with won = true.
C1_BetweenWins ==
    [][Expires =>
        \A p \in PositionsWith(board, PlayerTile) :
            (/\ Resolution.found
             /\ StrictlyBetween(p, Resolution.center,
                                Resolution.objectivePosition))
            => win']_vars

\* C2: won = true only if, at countdown expiry, a PlayerChoice cell exists
\* and lies strictly between the resolved center and the resolved objective
\* on a row or column the three share; with no selection, or a selection
\* outside the segment, the round resolves with won = false.
C2_WinOnlyBetween ==
    [][Expires =>
        (win' =>
            /\ Resolution.found
            /\ \E p \in PositionsWith(board, PlayerTile) :
                  StrictlyBetween(p, Resolution.center,
                                  Resolution.objectivePosition))]_vars

\* a lost round whose selected cell is in line with the center and the
\* objective but outside the segment
C2_Witness ==
    /\ state = EndState
    /\ ~win
    /\ \E p \in PositionsWith(board, PlayerTile) :
        /\ p.column = centerSymbolPosition.column
        /\ p.column = objectiveSymbolPosition.column
        /\ p.row < Lesser(centerSymbolPosition.row,
                          objectiveSymbolPosition.row)

\* C3: the game state only ever steps Standby -> Playing (a reset),
\* Playing -> Resolved (the countdown reaches 0) and Resolved -> Playing (a
\* reset); a tick that only hovers or selects leaves the game state alone.
C3_Transitions ==
    [][\/ state' = state
       \/ /\ state = StandByState /\ state' = PlayingState
          /\ timeLeft' = MAX_TIME * MillisPerSecond /\ board' = ResetBoard
       \/ /\ state = PlayingState /\ state' = EndState
          /\ timeLeft' = 0
       \/ /\ state = EndState /\ state' = PlayingState
          /\ timeLeft' = MAX_TIME * MillisPerSecond /\ board' = ResetBoard
      ]_vars

\* a second round under way with a cell selected: every transition was taken
C3_Witness ==
    /\ state = PlayingState
    /\ centerSymbolPosition # objectiveSymbolPosition
    /\ PositionsWith(board, PlayerTile) # {}

\* C4: the resolution engine runs once per round, in the tick in which the
\* countdown reaches zero: that tick rotates the symbols by 180 degrees, no
\* tick of a running round rotates them, and once the round is resolved no
\* tick changes the symbols or the outcome until the next reset.
C4_ResolvedOnce ==
    [][/\ (state = PlayingState /\ state' = PlayingState) =>
            /\ timeLeft' > 0
            /\ SymbolLayout(board') = SymbolLayout(board)
       /\ Expires =>
            /\ timeLeft' = 0
            /\ SymbolLayout(board') = Rotated(SymbolLayout(board))
       /\ (state = EndState /\ state' = EndState) =>
            /\ SymbolLayout(board') = SymbolLayout(board)
            /\ win' = win
            /\ centerSymbolPosition' = centerSymbolPosition
            /\ objectiveSymbolPosition' = objectiveSymbolPosition
      ]_vars

\* a resolved round: the symbols are the reset layout rotated once
C4_Witness ==
    /\ state = EndState
    /\ SymbolLayout(board) = Rotated(SymbolLayout(ResetBoard))
    /\ SymbolLayout(board) # SymbolLayout(ResetBoard)

\* C5: on any board, the transform applied twice puts every symbol back in
\* its original cell and leaves no symbol in any other cell: transforming the
\* board the engine has just transformed gives the symbols as they were.
C5_Involution ==
    [][Expires =>
        SymbolLayout(TransformBoard(board')) = SymbolLayout(board)]_vars

\* C6: on the reset layout every one of the 8 objectives resolves: at
\* countdown expiry a Center is found in the objective column and one
\* objective cell is selected, whatever cell the player selected.
C6_AlwaysResolves ==
    [][Expires =>
        /\ Resolution.found
        /\ centerSymbolPosition'.column = 2 * columnObjective
        /\ At(board', centerSymbolPosition') = CenterTile
        /\ At(board', Resolution.objectivePosition) = symbolObjective
        /\ \/ objectiveSymbolPosition' = Resolution.objectivePosition
           \/ win' /\ At(board, objectiveSymbolPosition') = PlayerTile
      ]_vars

\* a resolved round in which the player had selected a cell
C6_Witness ==
    /\ state = EndState
    /\ PositionsWith(board, PlayerTile) # {}
    /\ At(board, centerSymbolPosition) = CenterTile
    /\ symbolObjective = BetaTile
    /\ columnObjective = 3

\* C7: with more than one candidate, the resolved objective is the first
\* candidate in up, down, left, right order that has exactly one Center
\* among its own two-step neighbours; when no candidate has, nothing is
\* resolved and the outcome fields stay as they were.
C7_Disambiguation ==
    [][Expires =>
        LET b == SymbolLayout(board')
            a == Anchor(b, columnObjective)
        IN  Cardinality(Candidates(b)) > 1 =>
              IF Qualifying(b) # {}
              THEN /\ Resolution.found
                   /\ Resolution.objectivePosition
                          = Probe(a, Least(Qualifying(b)))
                   /\ centerSymbolPosition' = a
                   /\ \/ objectiveSymbolPosition'
                              = Probe(a, Least(Qualifying(b)))
                      \/ win'
              ELSE /\ ~Resolution.found
                   /\ win' = win
                   /\ centerSymbolPosition' = centerSymbolPosition
                   /\ objectiveSymbolPosition' = objectiveSymbolPosition
      ]_vars

\* resolved among several candidates, the first of which was passed over
C7_Witness ==
    /\ state = EndState
    /\ Cardinality(Candidates(board)) > 1
    /\ Qualifying(board) # {}
    /\ Least(Qualifying(board)) # Least(Candidates(board))
    /\ objectiveSymbolPosition
           = Probe(centerSymbolPosition, Least(Qualifying(board)))

\* C8: a single candidate is the resolved objective, however many Center
\* cells are among its own two-step neighbours.
C8_SingleCandidate ==
    [][Expires =>
        LET b == SymbolLayout(board')
            a == Anchor(b, columnObjective)
        IN  Cardinality(Candidates(b)) = 1 =>
              /\ Resolution.found
              /\ Resolution.objectivePosition = Probe(a, Least(Candidates(b)))
              /\ centerSymbolPosition' = a
              /\ \/ objectiveSymbolPosition' = Probe(a, Least(Candidates(b)))
                 \/ win'
      ]_vars

\* resolved to a single candidate that has no Center neighbour at all
C8_Witness ==
    /\ state = EndState
    /\ Cardinality(Candidates(board)) = 1
    /\ CenterCount(board, objectiveSymbolPosition) = 0
    /\ objectiveSymbolPosition
           = Probe(centerSymbolPosition, Least(Candidates(board)))

\* C9: at most one cell holds MouseOverTile and at most one holds PlayerTile.
C9_OneHoverOnePlayer ==
    /\ Cardinality(PositionsWith(board, MouseOverTile)) <= 1
    /\ Cardinality(PositionsWith(board, PlayerTile)) <= 1

\* a running round with one hovered and one selected cell
C9_Witness ==
    /\ state = PlayingState
    /\ Cardinality(PositionsWith(board, MouseOverTile)) = 1
    /\ Cardinality(PositionsWith(board, PlayerTile)) = 1
    /\ timeLeft < MAX_TIME * MillisPerSecond

\* C10: the countdown stays within 0..15 seconds, and it is exactly 0 once
\* the tick that takes it to or below zero has resolved the round.
C10_CountdownRange ==
    /\ timeLeft >= 0
    /\ timeLeft <= MAX_TIME * MillisPerSecond
    /\ state = EndState => timeLeft = 0

\* a round resolved after its countdown was clamped to 0
C10_Witness ==
    /\ state = EndState
    /\ timeLeft = 0
    /\ centerSymbolPosition # objectiveSymbolPosition

\* C11: the countdown drains in real time whatever the tick interval: once
\* the wall-clock time since the round started adds up to MAX_TIME seconds,
\* the round has been resolved.
C11_RealTime ==
    state = PlayingState =>
        sinceReset < MAX_TIME * MillisPerSecond * MicrosPerMilli

\* a round starts in this step
Starts == state # PlayingState /\ state' = PlayingState

\* C12: on the reset layout with column group 0 and objective Alpha, the
\* transform puts the mirror image of column 6 in column 0 (Alpha, Center,
\* Alpha in rows 0, 2, 4), the anchor is (2,0), the candidates are (0,0) and
\* (4,0), and the resolved objective is (4,0).
C12_Scenario ==
    [][(Expires /\ columnObjective = 0 /\ symbolObjective = AlphaTile) =>
        LET b == SymbolLayout(board')
        IN  /\ \A r \in Rows : b[r][0] = SymbolLayout(board)[4 - r][6]
            /\ b[0][0] = AlphaTile /\ b[2][0] = CenterTile
            /\ b[4][0] = AlphaTile
            /\ b[1][0] = EmptyTile /\ b[3][0] = EmptyTile
            /\ Anchor(b, 0) = BoardPosition(2, 0)
            /\ centerSymbolPosition' = BoardPosition(2, 0)
            /\ {Probe(BoardPosition(2, 0), i) : i \in Candidates(b)}
                   = {BoardPosition(0, 0), BoardPosition(4, 0)}
            /\ Resolution.objectivePosition = BoardPosition(4, 0)
            /\ \/ objectiveSymbolPosition' = BoardPosition(4, 0)
               \/ win'
      ]_vars

\* the scenario's round, resolved and lost
C12_Witness ==
    /\ state = EndState
    /\ columnObjective = 0
    /\ symbolObjective = AlphaTile
    /\ ~win
    /\ centerSymbolPosition = BoardPosition(2, 0)
    /\ objectiveSymbolPosition = BoardPosition(4, 0)

\* the board of a round that starts, row by row
RoundStartRows ==
    << <<BetaTile, EmptyTile, CenterTile, EmptyTile, BetaTile, EmptyTile,
         AlphaTile>>,
       <<EmptyTile, InvalidTile, EmptyTile, InvalidTile, EmptyTile,
         InvalidTile, EmptyTile>>,
       <<CenterTile, EmptyTile, AlphaTile, EmptyTile, BetaTile, EmptyTile,
         CenterTile>>,
       <<EmptyTile, InvalidTile, EmptyTile, InvalidTile, EmptyTile,
         InvalidTile, EmptyTile>>,
       <<AlphaTile, EmptyTile, BetaTile, EmptyTile, CenterTile, EmptyTile,
         AlphaTile>> >>

IsRoundStartBoard(b) ==
    \A r \in Rows, c \in Cols : b[r][c] = RoundStartRows[r + 1][c + 1]

\* C13: every start of a round, from Standby or from Resolved and after any
\* history, gives state Playing, countdown 15, won false, no Hover and no
\* PlayerChoice cell, the 6 gap cells Invalid, the 12 symbols of the fixed
\* layout and every other cell Empty; only the objective may differ.
C13_SameRoundStart ==
    [][Starts =>
        /\ timeLeft' = 15 * MillisPerSecond
        /\ ~win'
        /\ IsRoundStartBoard(board')
        /\ symbolObjective' \in {AlphaTile, BetaTile}
        /\ columnObjective' \in 0..3
      ]_vars

\* a round started after a round that was won with a selection at (3,0)
C13_Witness ==
    /\ state = PlayingState
    /\ timeLeft = 15 * MillisPerSecond
    /\ ~win
    /\ IsRoundStartBoard(board)
    /\ centerSymbolPosition = BoardPosition(2, 0)
    /\ objectiveSymbolPosition = BoardPosition(3, 0)

GapCells ==
    {BoardPosition(1, 1), BoardPosition(3, 1), BoardPosition(1, 3),
     BoardPosition(3, 3), BoardPosition(1, 5), BoardPosition(3, 5)}

\* C14: while a round exists, exactly the six gap cells are Invalid and the
\* other 29 cells are playable.
C14_GapCells ==
    state # StandByState =>
        /\ PositionsWith(board, InvalidTile) = GapCells
        /\ Cardinality([row : Rows, column : Cols] \ 
                       PositionsWith(board, InvalidTile)) = 29

\* a resolved round with a selected cell: pointer updates and a resolution
\* have acted on the board
C14_Witness ==
    /\ state = EndState
    /\ PositionsWith(board, PlayerTile) # {}
    /\ PositionsWith(board, InvalidTile) = GapCells

\* C15: every start of a round clears the outcome fields: won is false and
\* both marker positions are back at their zero value.
C15_ResetClears ==
    [][Starts =>
        /\ ~win'
        /\ centerSymbolPosition' = BoardPosition(0, 0)
        /\ objectiveSymbolPosition' = BoardPosition(0, 0)
      ]_vars

\* C16: when the resolution finds no valid objective, the state still
\* becomes Resolved, won is false and both marker positions are at their
\* zero value.
C16_NotFoundDefaults ==
    [][(Expires /\ ~Resolution.found) =>
        /\ state' = EndState
        /\ ~win'
        /\ centerSymbolPosition' = BoardPosition(0, 0)
        /\ objectiveSymbolPosition' = BoardPosition(0, 0)
      ]_vars

\* the cells a resolution on board b indexes: the objective column of every
\* row, the probe targets of the anchor and those of the anchor's targets
IndexedByResolution(b, columnGroup) ==
    LET a == Anchor(b, columnGroup)
        first == ProbeTargets(a.row, a.column)
    IN  {BoardPosition(r, 2 * columnGroup) : r \in Rows}
        \cup {first[i] : i \in 1..Len(first)}
        \cup UNION {{ProbeTargets(first[i].row, first[i].column)[j] :
                        j \in 1..Len(ProbeTargets(first[i].row,
                                                  first[i].column))} :
                    i \in 1..Len(first)}

\* C17: the resolution never indexes outside the 5x7 grid: the probe column
\* 2 * columnObjective is in 0..6, and from every anchor in the grid each
\* two-step probe that is made has its target in the grid, second-level
\* probes from the candidates included.
C17_ProbesInGrid ==
    /\ 2 * columnObjective \in Cols
    /\ \A row \in Rows, column \in Cols :
           \A i \in 1..Len(ProbeTargets(row, column)) :
               LET t == ProbeTargets(row, column)[i]
               IN  /\ InGrid(t.row, t.column)
                   /\ \/ t.column = column /\ t.row \in {row - 2, row + 2}
                      \/ t.row = row /\ t.column \in {column - 2, column + 2}
    /\ \A t \in IndexedByResolution(
                    TransformBoard(RemoveTileWithState(board, MouseOverTile)),
                    columnObjective) :
           InGrid(t.row, t.column)

\* a round resolved from the anchor in the last column with two candidates,
\* so that second-level probes were made
C17_Witness ==
    /\ state = EndState
    /\ centerSymbolPosition = BoardPosition(2, 6)
    /\ Cardinality(Candidates(SymbolLayout(board))) > 1

\* the cell midway between the center and the objective that End resolves
\* on the board as it stands
Midway ==
    BoardPosition(
        (Resolution.center.row + Resolution.objectivePosition.row) \div 2,
        (Resolution.center.column + Resolution.objectivePosition.column)
            \div 2)

\* C18: every round is winnable: the cell midway between the resolved center
\* and the resolved objective is playable, and with it as the PlayerChoice
\* at expiry the round resolves with won = true.
C18_Winnable ==
    state = PlayingState =>
        /\ Resolution.found
        /\ At(board, Midway) \in {EmptyTile, MouseOverTile, PlayerTile}
        /\ End(SetTile(board, Midway.column, Midway.row, PlayerTile),
               symbolObjective, columnObjective,
               centerSymbolPosition, objectiveSymbolPosition, win).win

\* C19: in Resolved state with won true, the objective marker position is
\* the cell that holds the PlayerChoice, from the end of the tick in which
\* the countdown expired until the next reset.
C19_TetherEndsAtPlayer ==
    (state = EndState /\ win) =>
        At(board, objectiveSymbolPosition) = PlayerTile

\* C20: once the resolution has run no tile changes until the next reset:
\* the board at the end of the expiry tick is the board the outcome was
\* computed from, no cell holds Hover in Resolved state, and ticks in
\* Resolved state leave the board alone.
C20_FrozenAfterResolution ==
    [][/\ Expires =>
            /\ board' = Resolution.board
            /\ PositionsWith(board', MouseOverTile) = {}
            /\ PositionsWith(board', PlayerTile)
                   = PositionsWith(Resolution.board, PlayerTile)
       /\ (state = EndState /\ state' = EndState) => board' = board
      ]_vars

\* a tick of a round that leaves the round running
StaysPlaying == state = PlayingState /\ state' = PlayingState

Selectable == {EmptyTile, MouseOverTile, PlayerTile}

\* C21: a pointer update during Playing changes only cells that are Empty,
\* Hover or PlayerChoice, and only among those states: symbol and Invalid
\* cells keep their state, the symbol layout stays the fixed reset layout,
\* and the objective, won and the game state are unchanged.
C21_PointerTouchesOnlySelectable ==
    [][StaysPlaying =>
        /\ \A r \in Rows, c \in Cols :
               board'[r][c] # board[r][c] =>
                   board[r][c] \in Selectable /\ board'[r][c] \in Selectable
        /\ \A r \in Rows, c \in Cols :
               SymbolLayout(board')[r][c]
                   = (IF IsSymbol(RoundStartRows[r + 1][c + 1])
                      THEN RoundStartRows[r + 1][c + 1] ELSE EmptyTile)
        /\ symbolObjective' = symbolObjective
        /\ columnObjective' = columnObjective
        /\ win' = win
      ]_vars

\* a running round in which pointer updates selected one cell and hover
\* over another
C21_Witness ==
    /\ state = PlayingState
    /\ PositionsWith(board, PlayerTile) # {}
    /\ PositionsWith(board, MouseOverTile) # {}

CountOf(b, s) == Cardinality(PositionsWith(b, s))

\* C22: on every board reachable at countdown expiry the transform is an
\* exact 180-degree rotation of the symbols: afterwards cell (r, c) holds a
\* symbol iff cell (4-r, 6-c) held one before, and the same one; there are
\* 4 Alpha, 4 Beta and 4 Center before and after.
C22_ExactRotation ==
    [][Expires =>
        /\ \A r \in Rows, c \in Cols :
               /\ IsSymbol(board'[r][c]) <=> IsSymbol(board[4 - r][6 - c])
               /\ IsSymbol(board'[r][c]) => board'[r][c] = board[4 - r][6 - c]
        /\ \A s \in {AlphaTile, BetaTile, CenterTile} :
               CountOf(board, s) = 4 /\ CountOf(board', s) = 4
      ]_vars

\* a resolved round whose corners show the rotated layout
C22_Witness ==
    /\ state = EndState
    /\ board[0][0] = AlphaTile
    /\ board[4][6] = BetaTile
    /\ board[0][6] = AlphaTile
    /\ board[4][0] = AlphaTile
    /\ SymbolLayout(board)
           = Rotated([r \in Rows |-> [c \in Cols |->
                 IF IsSymbol(RoundStartRows[r + 1][c + 1])
                 THEN RoundStartRows[r + 1][c + 1] ELSE EmptyTile]])

\* C23: on every board reachable at countdown expiry the transform leaves
\* the non-symbol cells alone: the PlayerChoice cell still holds
\* PlayerChoice, Invalid cells stay Invalid, Empty cells stay Empty, and
\* the Hover cell, if any, becomes Empty.
C23_NonSymbolsUnaffected ==
    [][Expires =>
        LET res == Resolution
            after == res.board
        IN  /\ centerSymbolPosition' = res.centerSymbolPosition
            /\ \A r \in Rows, c \in Cols :
                   /\ board[r][c] = PlayerTile => after[r][c] = PlayerTile
                   /\ board[r][c] = InvalidTile => after[r][c] = InvalidTile
                   /\ board[r][c] = EmptyTile => after[r][c] = EmptyTile
                   /\ board[r][c] = MouseOverTile => after[r][c] = EmptyTile
                   /\ IsSymbol(after[r][c]) => IsSymbol(board[r][c])
      ]_vars

\* a round resolved with the selection on (2,1), next to symbol cells, and
\* the pointer away from the board
C23_Witness ==
    /\ state = EndState
    /\ board[2][1] = PlayerTile
    /\ PositionsWith(board, MouseOverTile) = {}

\* C24: every round ends: when every tick measures at least one whole
\* millisecond, a game in Playing state eventually reaches Resolved without
\* any player action.
C24_RoundEnds == (state = PlayingState) ~> (state = EndState)

\* a round that ran out tick by tick with no cell ever selected
C24_Witness ==
    /\ state = EndState
    /\ timeLeft = 0
    /\ sinceReset = MAX_TIME * MillisPerSecond * MicrosPerMilli
    /\ PositionsWith(board, PlayerTile) = {}

\* C25: at every tick boundary the state and the countdown agree: the state
\* is Playing iff timeLeft > 0, and timeLeft is 0 in Resolved; won is false
\* in Standby and throughout Playing, and only the tick that enters Resolved
\* can make it true.
C25_StateCountdownAgree ==
    /\ [](/\ state = PlayingState <=> timeLeft > 0
          /\ state = EndState => timeLeft = 0
          /\ state \in {StandByState, PlayingState} => ~win)
    /\ [][(~win /\ win') => Expires]_vars

\* a round that was won: Resolved with the countdown at zero
C25_Witness ==
    /\ state = EndState
    /\ win
    /\ timeLeft = 0

\* a and b are two grid steps apart along one row or one column
TwoStepsApart(a, b) ==
    \/ a.row = b.row /\ (a.column - b.column) \in {-2, 2}
    \/ a.column = b.column /\ (a.row - b.row) \in {-2, 2}

\* C26: in Resolved state the markers agree with the board: the cell at
\* centerSymbolPosition holds Center and lies in column 2 * columnObjective,
\* and when won is false the cell at objectiveSymbolPosition holds the
\* objective symbol, two grid steps from the center along a row or a column.
C26_MarkersMatchBoard ==
    state = EndState =>
        /\ At(board, centerSymbolPosition) = CenterTile
        /\ centerSymbolPosition.column = 2 * columnObjective
        /\ ~win =>
               /\ At(board, objectiveSymbolPosition) = symbolObjective
               /\ TwoStepsApart(objectiveSymbolPosition, centerSymbolPosition)

\* a lost round resolved from the center at the bottom of column 4
C26_Witness ==
    /\ state = EndState
    /\ ~win
    /\ centerSymbolPosition = BoardPosition(4, 4)
    /\ symbolObjective = BetaTile
    /\ objectiveSymbolPosition = BoardPosition(4, 2)

\* the board after a pointer update with the cursor on the middle of
\* cell (r, c)
PointerOver(b, r, c, pressed) ==
    HandleMouseInBoard(b, TileX(c), TileY(r), pressed)

\* C27: hovering never loses the selection: a pointer update without the
\* button over any cell leaves the PlayerChoice cell as it is and changes
\* nothing but the Hover cell; a pointer update with the button over an
\* Empty or Hover cell moves PlayerChoice to that cell and turns the cell
\* selected before Empty.
C27_HoverKeepsSelection ==
    state = PlayingState =>
        \A r \in Rows, c \in Cols :
            LET hover == PointerOver(board, r, c, FALSE)
                press == PointerOver(board, r, c, TRUE)
            IN  /\ PositionsWith(hover, PlayerTile)
                       = PositionsWith(board, PlayerTile)
                /\ \A p \in [row : Rows, column : Cols] :
                       At(hover, p) # At(board, p) =>
                           \/ At(board, p) = MouseOverTile
                                  /\ At(hover, p) = EmptyTile
                           \/ At(board, p) = EmptyTile
                                  /\ At(hover, p) = MouseOverTile
                                  /\ p = BoardPosition(r, c)
                /\ board[r][c] \in {EmptyTile, MouseOverTile} =>
                       /\ PositionsWith(hover, MouseOverTile)
                              = {BoardPosition(r, c)}
                       /\ PositionsWith(press, PlayerTile)
                              = {BoardPosition(r, c)}
                       /\ \A q \in PositionsWith(board, PlayerTile) :
                              At(press, q) = EmptyTile

\* a running round with a selected cell and the pointer hovering over
\* another cell
C27_Witness ==
    /\ state = PlayingState
    /\ board[1][0] = PlayerTile
    /\ board[3][0] = MouseOverTile

====
